---------------------------- MODULE Spec2Model ----------------------------
(***************************************************************************)
(* IOSApp/generate_icon.py: the app icon generator of Raga Radio.          *)
(*                                                                         *)
(* The script draws a master icon (a vertical gradient, two music notes    *)
(* and a circular border), saves it, and saves twelve resized copies into  *)
(* a directory.  The model has the script's control flow, its local        *)
(* variables, the part of the file system it touches, and the drawing      *)
(* calls it makes.  Python's float arithmetic (IEEE-754 double, round to   *)
(* nearest even) is computed exactly, on fixed-point numbers held as       *)
(* sequences of limbs, because int() of a blend that is a whole number     *)
(* depends on the last bit of the float result.                            *)
(***************************************************************************)
EXTENDS Integers, Sequences, FiniteSets, TLC

VARIABLES
    pc,           \* the statement the process is at
    stack,        \* return addresses of the calls in progress
    run,          \* which run of the script this is (each run is a new process)
    previous,     \* how the run before this one ended
    stdout,       \* what the run has printed
    ops,          \* the file system operations the run has performed
    dirs,         \* the directories that exist
    files,        \* the files that exist, by path
    args,         \* the arguments of a function called on its own
    returned,     \* the value the last call returned
    size,         \* create_icon: size
    output_path,  \* create_icon: output_path
    image,        \* create_icon: image (the canvas that draw writes to)
    base_icon,    \* __main__: base_icon
    base_image,   \* generate_all_sizes: base_image
    output_dir,   \* generate_all_sizes: output_dir
    item,         \* generate_all_sizes: position of the loop in sizes.items()
    resized       \* generate_all_sizes: resized

vars == <<pc, stack, run, previous, stdout, ops, dirs, files, args, returned,
          size, output_path, image, base_icon, base_image, output_dir, item, resized>>

---------------------------------------------------------------------------
(* Bounds of the model. *)

MaxRuns == 2
MaxHeight == 135
MaxIconSize == 60
MaxNoteSize == 60
MaxAnchor == 2

---------------------------------------------------------------------------
(* Python float arithmetic.  A value is a non-negative fixed-point number: *)
(* NumLimbs limbs of LimbBits bits, least significant first, the last limb *)
(* the integer part.  Every double the gradient computes is a multiple of  *)
(* 2^-64 below 2^15, so it is held exactly.                                *)

LimbBits == 15
FracLimbs == 5
MantissaBits == 53
NumLimbs == FracLimbs + 1

RECURSIVE Pow2(_)
Pow2(n) == IF n = 0 THEN 1 ELSE 2 * Pow2(n - 1)

Base == Pow2(LimbBits)

\* limbs i..NumLimbs of a + b, given the carry into limb i
RECURSIVE AddLimbs(_, _, _, _)
AddLimbs(a, b, i, carry) ==
    IF i > NumLimbs THEN <<>>
    ELSE LET s == a[i] + b[i] + carry
         IN  <<s % Base>> \o AddLimbs(a, b, i + 1, s \div Base)

FxAdd(a, b) == AddLimbs(a, b, 1, 0)

RECURSIVE SubLimbs(_, _, _, _)
SubLimbs(a, b, i, borrow) ==
    IF i > NumLimbs THEN <<>>
    ELSE LET d == a[i] - b[i] - borrow
         IN  <<d % Base>> \o SubLimbs(a, b, i + 1, IF d < 0 THEN 1 ELSE 0)

FxSub(a, b) == SubLimbs(a, b, 1, 0)

RECURSIVE MulLimbs(_, _, _, _)
MulLimbs(a, c, i, carry) ==
    IF i > NumLimbs THEN <<>>
    ELSE LET p == a[i] * c + carry
         IN  <<p % Base>> \o MulLimbs(a, c, i + 1, p \div Base)

\* a times the small integer c
FxMul(a, c) == MulLimbs(a, c, 1, 0)

RECURSIVE FxUnit(_, _, _)
FxUnit(i, at, n) ==
    IF i > NumLimbs THEN <<>>
    ELSE <<IF i = at THEN n ELSE 0>> \o FxUnit(i + 1, at, n)

\* the integer n
FxInt(n) == FxUnit(1, FracLimbs + 1, n)

\* the value whose only set bit is bit p
FxPow2(p) == FxUnit(1, (p \div LimbBits) + 1, Pow2(p % LimbBits))

FxBit(v, p) == (v[(p \div LimbBits) + 1] \div Pow2(p % LimbBits)) % 2

RECURSIVE IntBitLength(_)
IntBitLength(n) == IF n = 0 THEN 0 ELSE 1 + IntBitLength(n \div 2)

RECURSIVE TopLimb(_, _)
TopLimb(v, i) == IF i = 0 THEN 0 ELSE IF v[i] # 0 THEN i ELSE TopLimb(v, i - 1)

FxBitLength(v) ==
    LET t == TopLimb(v, NumLimbs)
    IN  IF t = 0 THEN 0 ELSE (t - 1) * LimbBits + IntBitLength(v[t])

\* bits 0..p-1 of v are all zero
FxLowZero(v, p) ==
    \A i \in 1..NumLimbs :
        IF i * LimbBits <= p THEN v[i] = 0
        ELSE IF (i - 1) * LimbBits < p THEN v[i] % Pow2(p - (i - 1) * LimbBits) = 0
        ELSE TRUE

RECURSIVE TruncLimbs(_, _, _)
TruncLimbs(v, p, i) ==
    IF i > NumLimbs THEN <<>>
    ELSE <<IF i * LimbBits <= p THEN 0
           ELSE IF (i - 1) * LimbBits < p
                THEN v[i] - (v[i] % Pow2(p - (i - 1) * LimbBits))
           ELSE v[i]>> \o TruncLimbs(v, p, i + 1)

\* v with bits 0..p-1 cleared
FxTruncate(v, p) == TruncLimbs(v, p, 1)

\* v (plus, when sticky, a nonzero amount below its last bit) rounded to
\* MantissaBits significant bits, to nearest, ties to even
RoundNearestEven(v, sticky) ==
    LET len == FxBitLength(v)
        q == len - MantissaBits
    IN  IF q <= 0 THEN v
        ELSE LET half == FxBit(v, q - 1) = 1
                 rest == sticky \/ ~FxLowZero(v, q - 1)
                 odd == FxBit(v, q) = 1
                 t == FxTruncate(v, q)
             IN  IF half /\ (rest \/ odd) THEN FxAdd(t, FxPow2(q)) ELSE t

\* long division: the n next limbs of rem / s, most significant first, then
\* the remainder that is left
RECURSIVE DivLimbs(_, _, _)
DivLimbs(rem, s, n) ==
    IF n = 0 THEN <<rem>>
    ELSE <<(rem * Base) \div s>> \o DivLimbs((rem * Base) % s, s, n - 1)

RECURSIVE QuotLimbs(_, _, _)
QuotLimbs(d, whole, i) ==
    IF i > NumLimbs THEN <<>>
    ELSE <<IF i = NumLimbs THEN whole ELSE d[NumLimbs - i]>> \o QuotLimbs(d, whole, i + 1)

\* y / s for integers: int / int is the correctly rounded quotient
FloatDiv(y, s) ==
    LET d == DivLimbs(y % s, s, FracLimbs)
    IN  RoundNearestEven(QuotLimbs(d, y \div s, 1), d[FracLimbs + 1] # 0)

\* a - b, a + b for floats a >= b >= 0; c * a for the integer c
FloatSub(a, b) == RoundNearestEven(FxSub(a, b), FALSE)
FloatAdd(a, b) == RoundNearestEven(FxAdd(a, b), FALSE)
FloatMul(c, a) == RoundNearestEven(FxMul(a, c), FALSE)

\* int(a) truncates toward zero; a >= 0
FloatToInt(a) == a[NumLimbs]

---------------------------------------------------------------------------
(* Images.  A canvas is its size, the colour of each row of the background *)
(* (the gradient paints whole rows) and the drawing calls made on top of   *)
(* it, in order.                                                           *)

None == [kind |-> "none"]

BLACK == <<0, 0, 0>>

range(n) == 0..(n - 1)

\* Image.new('RGB', size): every pixel black
Image_new(sz) ==
    [w |-> sz[1], h |-> sz[2], rows |-> [y \in range(sz[2]) |-> BLACK], shapes |-> <<>>]

\* int(from * (1 - ratio) + to * ratio)
RoundedChannelMutant(from, to, ratio) ==
    FloatToInt(FloatAdd(FloatAdd(FloatMul(from, FloatSub(FxInt(1), ratio)), FloatMul(to, ratio)),
                        FxUnit(1, FracLimbs, Base \div 2)))
Channel(from, to, ratio) ==
    FloatToInt(FloatAdd(FloatMul(from, FloatSub(FxInt(1), ratio)), FloatMul(to, ratio)))

\* the fill of the line drawn at row y of a canvas of the given height
GradientColor(y, height) ==
    LET ratio == FloatDiv(y, height)
    IN  <<Channel(255, 75, ratio), Channel(140, 0, ratio), Channel(0, 130, ratio)>>

\* the rows the loop visits
GradientShortLoopMutant(height) == range(height - 1)
GradientLoopRows(height) == range(height)

MasterSize == 1024

\* the lines the loop draws on a canvas of the given height, by row
GradientLines(height) == [y \in GradientLoopRows(height) |-> GradientColor(y, height)]

\* those of the script's own canvas, worked out once
MasterLines == GradientLines(MasterSize)

create_gradient_background(sz) ==
    LET new == Image_new(sz)
        lines == IF sz[2] = MasterSize THEN MasterLines ELSE GradientLines(sz[2])
    IN  [new EXCEPT !.rows =
            [y \in DOMAIN new.rows |-> IF y \in DOMAIN lines THEN lines[y] ELSE new.rows[y]]]

---------------------------------------------------------------------------
(* Drawing calls.  Each call on the canvas is recorded with the arguments  *)
(* it was given.                                                           *)

WHITE == <<255, 255, 255>>
SECONDARY == <<255, 255, 255, 200>>
BORDER == <<255, 255, 255, 180>>

draw_ellipse(img, xy, fill) ==
    [img EXCEPT !.shapes = Append(@, [call |-> "ellipse", xy |-> xy, fill |-> fill])]

draw_rectangle(img, xy, fill) ==
    [img EXCEPT !.shapes = Append(@, [call |-> "rectangle", xy |-> xy, fill |-> fill])]

draw_polygon(img, points, fill) ==
    [img EXCEPT !.shapes = Append(@, [call |-> "polygon", xy |-> points, fill |-> fill])]

draw_ellipse_outline(img, xy, outline, width) ==
    [img EXCEPT !.shapes =
        Append(@, [call |-> "ellipse", xy |-> xy, outline |-> outline, width |-> width])]

\* the note with its head at the anchor instead of below it
draw_music_note_head_mutant(img, center_x, center_y, sz, color) ==
    LET note_radius == sz \div 8
        head == draw_ellipse(img,
                    <<center_x - note_radius,
                      center_y,
                      center_x + note_radius,
                      center_y + note_radius * 2>>, color)
        stem_width == sz \div 25
        stem == draw_rectangle(head,
                    <<center_x + note_radius - stem_width,
                      center_y - sz \div 3,
                      center_x + note_radius,
                      center_y + sz \div 6>>, color)
        flag_points == << <<center_x + note_radius, center_y - sz \div 3>>,
                          <<center_x + note_radius + sz \div 6, center_y - sz \div 5>>,
                          <<center_x + note_radius, center_y - sz \div 8>> >>
    IN  draw_polygon(stem, flag_points, color)

draw_music_note(img, center_x, center_y, sz, color) ==
    LET note_radius == sz \div 8
        head == draw_ellipse(img,
                    <<center_x - note_radius,
                      center_y + sz \div 6,
                      center_x + note_radius,
                      center_y + sz \div 6 + note_radius * 2>>, color)
        stem_width == sz \div 25
        stem == draw_rectangle(head,
                    <<center_x + note_radius - stem_width,
                      center_y - sz \div 3,
                      center_x + note_radius,
                      center_y + sz \div 6>>, color)
        flag_points == << <<center_x + note_radius, center_y - sz \div 3>>,
                          <<center_x + note_radius + sz \div 6, center_y - sz \div 5>>,
                          <<center_x + note_radius, center_y - sz \div 8>> >>
    IN  draw_polygon(stem, flag_points, color)

\* base_image.resize((n, n), LANCZOS): a new image; the one resized is left as
\* it is.  Resizing to the size the image has returns a copy of it.  The
\* resampled pixels are a function of the filter, the size and the source.
resize(img, sz, filter) ==
    IF <<img.w, img.h>> = sz THEN img
    ELSE [w |-> sz[1], h |-> sz[2], resampled |-> [filter |-> filter, source |-> img]]

---------------------------------------------------------------------------
(* The file system: the directories and files under the script's own       *)
(* directory.  A path is the sequence of its components.                   *)

join(dir, name) == dir \o <<name>>

main_icon_path == <<"AppIcon-1024.png">>
AppIcons == <<"AppIcons">>

\* the table as sorted(sizes.items()) would give it
sizes_sorted_mutant == <<
    [filename |-> "Icon-1024.png", size |-> 1024],
    [filename |-> "Icon-120.png", size |-> 120],
    [filename |-> "Icon-152.png", size |-> 152],
    [filename |-> "Icon-167.png", size |-> 167],
    [filename |-> "Icon-180.png", size |-> 180],
    [filename |-> "Icon-29.png", size |-> 29],
    [filename |-> "Icon-40.png", size |-> 40],
    [filename |-> "Icon-58.png", size |-> 58],
    [filename |-> "Icon-60.png", size |-> 60],
    [filename |-> "Icon-76.png", size |-> 76],
    [filename |-> "Icon-80.png", size |-> 80],
    [filename |-> "Icon-87.png", size |-> 87] >>

\* the dict of generate_all_sizes, in the order of its items()
sizes == <<
    [filename |-> "Icon-1024.png", size |-> 1024],
    [filename |-> "Icon-180.png", size |-> 180],
    [filename |-> "Icon-167.png", size |-> 167],
    [filename |-> "Icon-152.png", size |-> 152],
    [filename |-> "Icon-120.png", size |-> 120],
    [filename |-> "Icon-87.png", size |-> 87],
    [filename |-> "Icon-80.png", size |-> 80],
    [filename |-> "Icon-76.png", size |-> 76],
    [filename |-> "Icon-60.png", size |-> 60],
    [filename |-> "Icon-58.png", size |-> 58],
    [filename |-> "Icon-40.png", size |-> 40],
    [filename |-> "Icon-29.png", size |-> 29] >>

NoFiles == [p \in {} |-> None]

\* the PNG file that save writes: lossless, the image's size and pixels
png(img) == [kind |-> "png", image |-> img]

\* what a write that failed part-way leaves where a file was being written
PARTIAL == [kind |-> "partial"]

\* image.save(path, 'PNG'): the file is created or overwritten
save(fs, img, path) ==
    [p \in DOMAIN fs \cup {path} |-> IF p = path THEN png(img) ELSE fs[p]]

\* the states a save that raises can leave the files in: the open failed and
\* nothing changed, or the file was opened and is left incomplete
save_failed(fs, path) ==
    {fs, [p \in DOMAIN fs \cup {path} |-> IF p = path THEN PARTIAL ELSE fs[p]]}

\* the exist_ok argument of the call of os.makedirs
exist_ok_false_mutant == FALSE
exist_ok == TRUE

\* os.makedirs(path, exist_ok): whether it raises FileExistsError
makedirs_exists_error(path, ok_if_exists) ==
    \/ path \in DOMAIN files
    \/ path \in dirs /\ ~ok_if_exists

---------------------------------------------------------------------------
(* The script, statement by statement. *)

Log(op, path, error) == [op |-> op, path |-> path, error |-> error]

\* an exception nothing catches: the traceback is printed and the process ends
Raise ==
    /\ pc' = "failed"
    /\ stack' = <<>>

Main ==
    /\ pc = "main"
    /\ stdout' = Append(stdout, <<"Generating Raga Radio app icon...">>)
    /\ size' = MasterSize
    /\ output_path' = main_icon_path
    /\ stack' = <<"main_generate">> \o stack
    /\ pc' = "create_icon"
    /\ UNCHANGED <<run, previous, ops, dirs, files, args, returned, image,
                   base_icon, base_image, output_dir, item, resized>>

CreateGradient ==
    /\ pc = "create_icon"
    /\ image' = create_gradient_background(<<size, size>>)
    /\ pc' = "draw_main_note"
    /\ UNCHANGED <<stack, run, previous, stdout, ops, dirs, files, args, returned,
                   size, output_path, base_icon, base_image, output_dir, item, resized>>

DrawMainNote ==
    /\ pc = "draw_main_note"
    /\ image' = draw_music_note(image, size \div 2, size \div 2, size, WHITE)
    /\ pc' = "draw_secondary_note"
    /\ UNCHANGED <<stack, run, previous, stdout, ops, dirs, files, args, returned,
                   size, output_path, base_icon, base_image, output_dir, item, resized>>

\* size * (3 // 4) for size * 3 // 4
DrawSecondaryNoteScaleMutant ==
    /\ pc = "draw_secondary_note"
    /\ image' = draw_music_note(image, size \div 2 - size \div 5, size \div 2 + size \div 10,
                                size * (3 \div 4), SECONDARY)
    /\ pc' = "draw_border"
    /\ UNCHANGED <<stack, run, previous, stdout, ops, dirs, files, args, returned,
                   size, output_path, base_icon, base_image, output_dir, item, resized>>

DrawSecondaryNote ==
    /\ pc = "draw_secondary_note"
    /\ image' = draw_music_note(image, size \div 2 - size \div 5, size \div 2 + size \div 10,
                                (size * 3) \div 4, SECONDARY)
    /\ pc' = "draw_border"
    /\ UNCHANGED <<stack, run, previous, stdout, ops, dirs, files, args, returned,
                   size, output_path, base_icon, base_image, output_dir, item, resized>>

DrawBorder ==
    /\ pc = "draw_border"
    /\ LET border_width == size \div 50
       IN  image' = draw_ellipse_outline(image,
                        <<border_width, border_width, size - border_width, size - border_width>>,
                        BORDER, border_width)
    /\ pc' = "save_icon"
    /\ UNCHANGED <<stack, run, previous, stdout, ops, dirs, files, args, returned,
                   size, output_path, base_icon, base_image, output_dir, item, resized>>

SaveIcon ==
    /\ pc = "save_icon"
    /\ files' = save(files, image, output_path)
    /\ ops' = Append(ops, Log("save", output_path, "none"))
    /\ stdout' = Append(stdout, <<"Icon created:", output_path>>)
    /\ pc' = "return_icon"
    /\ UNCHANGED <<stack, run, previous, dirs, args, returned,
                   size, output_path, image, base_icon, base_image, output_dir, item, resized>>

SaveIconFails ==
    /\ pc = "save_icon"
    /\ files' \in save_failed(files, output_path)
    /\ ops' = Append(ops, Log("save", output_path, "OSError"))
    /\ Raise
    /\ UNCHANGED <<run, previous, stdout, dirs, args, returned,
                   size, output_path, image, base_icon, base_image, output_dir, item, resized>>

ReturnIcon ==
    /\ pc = "return_icon"
    /\ returned' = image
    /\ pc' = IF stack = <<>> THEN "caller" ELSE Head(stack)
    /\ stack' = IF stack = <<>> THEN stack ELSE Tail(stack)
    /\ UNCHANGED <<run, previous, stdout, ops, dirs, files, args,
                   size, output_path, image, base_icon, base_image, output_dir, item, resized>>

MainGenerate ==
    /\ pc = "main_generate"
    /\ base_icon' = returned
    /\ stdout' = Append(stdout, <<"Generating all icon sizes in:", AppIcons>>)
    /\ base_image' = returned
    /\ output_dir' = AppIcons
    /\ stack' = <<"main_complete">> \o stack
    /\ pc' = "makedirs"
    /\ UNCHANGED <<run, previous, ops, dirs, files, args, returned,
                   size, output_path, image, item, resized>>

MakeDirs ==
    /\ pc = "makedirs"
    /\ IF makedirs_exists_error(output_dir, exist_ok)
       THEN /\ ops' = Append(ops, Log("makedirs", output_dir, "FileExistsError"))
            /\ Raise
            /\ UNCHANGED <<dirs, item>>
       ELSE /\ dirs' = dirs \cup {output_dir}
            /\ ops' = Append(ops, Log("makedirs", output_dir, "none"))
            /\ item' = 1
            /\ pc' = "for_sizes"
            /\ UNCHANGED stack
    /\ UNCHANGED <<run, previous, stdout, files, args, returned,
                   size, output_path, image, base_icon, base_image, output_dir, resized>>

MakeDirsFails ==
    /\ pc = "makedirs"
    /\ ops' = Append(ops, Log("makedirs", output_dir, "OSError"))
    /\ Raise
    /\ UNCHANGED <<run, previous, stdout, dirs, files, args, returned,
                   size, output_path, image, base_icon, base_image, output_dir, item, resized>>

\* each size resized from the one before it
ResizeChainMutant ==
    /\ pc = "for_sizes"
    /\ item <= Len(sizes)
    /\ resized' = resize(IF resized = None THEN base_image ELSE resized,
                         <<sizes[item].size, sizes[item].size>>, "LANCZOS")
    /\ pc' = "save_resized"
    /\ UNCHANGED <<stack, run, previous, stdout, ops, dirs, files, args, returned,
                   size, output_path, image, base_icon, base_image, output_dir, item>>

Resize ==
    /\ pc = "for_sizes"
    /\ item <= Len(sizes)
    /\ resized' = resize(base_image, <<sizes[item].size, sizes[item].size>>, "LANCZOS")
    /\ pc' = "save_resized"
    /\ UNCHANGED <<stack, run, previous, stdout, ops, dirs, files, args, returned,
                   size, output_path, image, base_icon, base_image, output_dir, item>>

\* base_image saved where resized should be
SaveResizedBaseMutant ==
    /\ pc = "save_resized"
    /\ files' = save(files, base_image, join(output_dir, sizes[item].filename))
    /\ ops' = Append(ops, Log("save", join(output_dir, sizes[item].filename), "none"))
    /\ stdout' = Append(stdout, <<"Created:", sizes[item].filename, sizes[item].size>>)
    /\ item' = item + 1
    /\ pc' = "for_sizes"
    /\ UNCHANGED <<stack, run, previous, dirs, args, returned,
                   size, output_path, image, base_icon, base_image, output_dir, resized>>

SaveResized ==
    /\ pc = "save_resized"
    /\ files' = save(files, resized, join(output_dir, sizes[item].filename))
    /\ ops' = Append(ops, Log("save", join(output_dir, sizes[item].filename), "none"))
    /\ stdout' = Append(stdout, <<"Created:", sizes[item].filename, sizes[item].size>>)
    /\ item' = item + 1
    /\ pc' = "for_sizes"
    /\ UNCHANGED <<stack, run, previous, dirs, args, returned,
                   size, output_path, image, base_icon, base_image, output_dir, resized>>

\* the error caught and the loop carried on with the next size
SaveResizedFailsContinueMutant ==
    /\ pc = "save_resized"
    /\ files' \in save_failed(files, join(output_dir, sizes[item].filename))
    /\ ops' = Append(ops, Log("save", join(output_dir, sizes[item].filename), "OSError"))
    /\ item' = item + 1
    /\ pc' = "for_sizes"
    /\ UNCHANGED <<stack, run, previous, stdout, dirs, args, returned,
                   size, output_path, image, base_icon, base_image, output_dir, resized>>

\* the error caught and the same save tried again
SaveResizedFailsRetryMutant ==
    /\ pc = "save_resized"
    /\ files' \in save_failed(files, join(output_dir, sizes[item].filename))
    /\ pc' = "for_sizes"
    /\ UNCHANGED <<stack, run, previous, stdout, ops, dirs, args, returned,
                   size, output_path, image, base_icon, base_image, output_dir, item, resized>>

SaveResizedFails ==
    /\ pc = "save_resized"
    /\ files' \in save_failed(files, join(output_dir, sizes[item].filename))
    /\ ops' = Append(ops, Log("save", join(output_dir, sizes[item].filename), "OSError"))
    /\ Raise
    /\ UNCHANGED <<run, previous, stdout, dirs, args, returned,
                   size, output_path, image, base_icon, base_image, output_dir, item, resized>>

ReturnGenerate ==
    /\ pc = "for_sizes"
    /\ item > Len(sizes)
    /\ returned' = None
    /\ pc' = IF stack = <<>> THEN "caller" ELSE Head(stack)
    /\ stack' = IF stack = <<>> THEN stack ELSE Tail(stack)
    /\ UNCHANGED <<run, previous, stdout, ops, dirs, files, args,
                   size, output_path, image, base_icon, base_image, output_dir, item, resized>>

MainComplete ==
    /\ pc = "main_complete"
    /\ stdout' = Append(stdout, <<"Icon generation complete!">>)
    /\ pc' = "done"
    /\ UNCHANGED <<stack, run, previous, ops, dirs, files, args, returned,
                   size, output_path, image, base_icon, base_image, output_dir, item, resized>>

\* the script is run again: a new process, the files of the run before it
StartRun ==
    /\ pc \in {"done", "failed"}
    /\ run < MaxRuns
    /\ run' = run + 1
    /\ previous' = pc
    /\ pc' = "main"
    /\ stack' = <<>>
    /\ stdout' = <<>>
    /\ ops' = <<>>
    /\ returned' = None
    /\ size' = 0 /\ output_path' = <<>> /\ image' = None /\ base_icon' = None
    /\ base_image' = None /\ output_dir' = <<>> /\ item' = 0 /\ resized' = None
    /\ UNCHANGED <<dirs, files, args>>

NoLocals ==
    /\ stack = <<>> /\ run = 1 /\ previous = "none" /\ stdout = <<>> /\ ops = <<>>
    /\ dirs = {} /\ files = NoFiles /\ returned = None
    /\ image = None /\ base_icon = None
    /\ base_image = None /\ output_dir = <<>> /\ item = 0 /\ resized = None

Init ==
    /\ pc = "main"
    /\ args = None
    /\ size = 0 /\ output_path = <<>>
    /\ NoLocals

Step ==
    \/ Main \/ CreateGradient \/ DrawMainNote \/ DrawSecondaryNote \/ DrawBorder
    \/ SaveIcon \/ SaveIconFails \/ ReturnIcon
    \/ MainGenerate \/ MakeDirs \/ MakeDirsFails
    \/ Resize \/ SaveResized \/ SaveResizedFails \/ ReturnGenerate
    \/ MainComplete

Next == Step \/ StartRun

Spec == Init /\ [][Next]_vars

\* the interpreter runs every statement it reaches
LiveSpec == Spec /\ WF_vars(Step)

---------------------------------------------------------------------------
(* create_gradient_background, create_icon and draw_music_note, each       *)
(* called on its own with arguments from a bounded set.                    *)

GradientHeights == 1..MaxHeight \cup {MasterSize}

GradientInit ==
    /\ pc = "create_gradient_background"
    /\ \E h \in GradientHeights : \E w \in {1, h} : args = [size |-> <<w, h>>]
    /\ size = 0 /\ output_path = <<>>
    /\ NoLocals

CallGradient ==
    /\ pc = "create_gradient_background"
    /\ returned' = create_gradient_background(args.size)
    /\ pc' = "caller"
    /\ UNCHANGED <<stack, run, previous, stdout, ops, dirs, files, args,
                   size, output_path, image, base_icon, base_image, output_dir, item, resized>>

GradientNext == CallGradient

GradientSpec == GradientInit /\ [][GradientNext]_vars

IconSizes == 1..MaxIconSize \cup {MasterSize}

IconInit ==
    /\ pc = "create_icon"
    /\ args = None
    /\ size \in IconSizes
    /\ output_path = main_icon_path
    /\ NoLocals

IconNext ==
    \/ CreateGradient \/ DrawMainNote \/ DrawSecondaryNote \/ DrawBorder
    \/ SaveIcon \/ SaveIconFails \/ ReturnIcon

IconSpec == IconInit /\ [][IconNext]_vars

NoteSizes == 0..MaxNoteSize \cup {MasterSize, (MasterSize * 3) \div 4}
NoteAnchors == (0 - MaxAnchor)..MaxAnchor \cup {MasterSize \div 2}

NoteInit ==
    /\ pc = "draw_music_note"
    /\ \E x \in NoteAnchors, y \in NoteAnchors, s \in NoteSizes, c \in {WHITE, SECONDARY} :
          args = [center_x |-> x, center_y |-> y, size |-> s, color |-> c]
    /\ size = 0 /\ output_path = <<>>
    /\ stack = <<>> /\ run = 1 /\ previous = "none" /\ stdout = <<>> /\ ops = <<>>
    /\ dirs = {} /\ files = NoFiles /\ returned = None
    /\ image = Image_new(<<1, 1>>) /\ base_icon = None
    /\ base_image = None /\ output_dir = <<>> /\ item = 0 /\ resized = None

CallNote ==
    /\ pc = "draw_music_note"
    /\ image' = draw_music_note(image, args.center_x, args.center_y, args.size, args.color)
    /\ pc' = "caller"
    /\ UNCHANGED <<stack, run, previous, stdout, ops, dirs, files, args, returned,
                   size, output_path, base_icon, base_image, output_dir, item, resized>>

NoteNext == CallNote

NoteSpec == NoteInit /\ [][NoteNext]_vars

---------------------------------------------------------------------------
(* The claims. *)

Last(q) == q[Len(q)]

Saved(path) == path \in DOMAIN files /\ files[path].kind = "png"

IsSize(path, n) == Saved(path) /\ files[path].image.w = n /\ files[path].image.h = n

OkOps == {i \in 1..Len(ops) : ops[i].error = "none"}

IconTable == {
    <<"Icon-1024.png", 1024>>, <<"Icon-180.png", 180>>, <<"Icon-167.png", 167>>,
    <<"Icon-152.png", 152>>, <<"Icon-120.png", 120>>, <<"Icon-87.png", 87>>,
    <<"Icon-80.png", 80>>, <<"Icon-76.png", 76>>, <<"Icon-60.png", 60>>,
    <<"Icon-58.png", 58>>, <<"Icon-40.png", 40>>, <<"Icon-29.png", 29>> }

InAppIcons == {p \in DOMAIN files : Len(p) = 2 /\ p[1] = "AppIcons"}

\* C1: a run of the script in which no I/O operation fails ends with the master
\* file AppIcon-1024.png of 1024x1024 pixels and a directory AppIcons that holds
\* exactly the 12 files of the size table, each as wide and as high as the
\* table says.
C1_EndToEnd ==
    pc = "done" =>
        /\ IsSize(<<"AppIcon-1024.png">>, 1024)
        /\ <<"AppIcons">> \in dirs
        /\ Cardinality(InAppIcons) = 12
        /\ InAppIcons = {<<"AppIcons", e[1]>> : e \in IconTable}
        /\ \A e \in IconTable : IsSize(<<"AppIcons", e[1]>>, e[2])

C1_Witness == pc = "done" /\ Len(ops) = 14 /\ run = 2 /\ previous = "failed"

FileOrder == <<
    Log("save", <<"AppIcon-1024.png">>, "none"),
    Log("makedirs", <<"AppIcons">>, "none"),
    Log("save", <<"AppIcons", "Icon-1024.png">>, "none"),
    Log("save", <<"AppIcons", "Icon-180.png">>, "none"),
    Log("save", <<"AppIcons", "Icon-167.png">>, "none"),
    Log("save", <<"AppIcons", "Icon-152.png">>, "none"),
    Log("save", <<"AppIcons", "Icon-120.png">>, "none"),
    Log("save", <<"AppIcons", "Icon-87.png">>, "none"),
    Log("save", <<"AppIcons", "Icon-80.png">>, "none"),
    Log("save", <<"AppIcons", "Icon-76.png">>, "none"),
    Log("save", <<"AppIcons", "Icon-60.png">>, "none"),
    Log("save", <<"AppIcons", "Icon-58.png">>, "none"),
    Log("save", <<"AppIcons", "Icon-40.png">>, "none"),
    Log("save", <<"AppIcons", "Icon-29.png">>, "none") >>

C2_FailureIsLast ==
    /\ \A i \in 1..Len(ops) : ops[i].error # "none" => i = Len(ops) /\ pc = "failed"
    /\ pc = "failed" => ops # <<>> /\ Last(ops).error # "none"
    /\ pc = "failed" =>
          \* what was saved before the failure is in place
          /\ \A i \in OkOps : ops[i].op = "save" => Saved(ops[i].path)
          \* in a first run, nothing after the failed operation is there
          /\ run = 1 =>
                \A j \in (Len(ops) + 1)..Len(FileOrder) :
                    IF FileOrder[j].op = "save" THEN FileOrder[j].path \notin DOMAIN files
                    ELSE dirs = {}

\* the paths whose file is not after the step what it was before it
Changed == {p \in DOMAIN files' : p \notin DOMAIN files \/ files'[p] # files[p]}

\* C2: at the first I/O failure the run ends in the error state: the failed
\* operation is the last one the run performs (no retry, nothing after it: a
\* failed master write leaves the directory uncreated and no resized file
\* written, a failed k-th write leaves the later files unwritten), and what was
\* written before it stays as written.
C2_AbortAtFirstFailure ==
    /\ []C2_FailureIsLast
    /\ [][pc = "failed" /\ run' = run => files' = files /\ dirs' = dirs /\ ops' = ops]_vars
    /\ [][run' = run =>
            /\ DOMAIN files \subseteq DOMAIN files'
            /\ Changed # {} => Len(ops') = Len(ops) + 1 /\ Changed = {Last(ops').path}
            /\ dirs' # dirs => Len(ops') = Len(ops) + 1 /\ Last(ops').op = "makedirs"]_vars

C2_Witness ==
    /\ pc = "failed" /\ run = 1 /\ Len(ops) = 5
    /\ Saved(<<"AppIcons", "Icon-180.png">>)
    /\ <<"AppIcons", "Icon-152.png">> \notin DOMAIN files

\* C3: the file system operations of a run come in one order: the master file,
\* then the directory, then the resized files in the order of the size table,
\* which is by strictly decreasing edge length; no resized file is written
\* before the master file or before the directory exists.
C3_FixedOrder ==
    /\ Len(ops) <= Len(FileOrder)
    /\ \A i \in 1..Len(ops) :
          /\ ops[i].op = FileOrder[i].op
          /\ ops[i].path = FileOrder[i].path
    /\ \A i \in 1..Len(ops) :
          (ops[i].op = "save" /\ Len(ops[i].path) = 2) =>
              /\ ops[1] = FileOrder[1]
              /\ ops[2] = FileOrder[2]
              /\ <<"AppIcons">> \in dirs
              /\ Saved(<<"AppIcon-1024.png">>)
    /\ \A i \in 1..Len(sizes), j \in 1..Len(sizes) : i < j => sizes[i].size > sizes[j].size

C3_Witness == pc = "done" /\ ops = FileOrder

\* the file the run wrote at position i of its operations
Written(i) == files[ops[i].path].image

\* C4: the bitmap create_icon returns is square, S x S for the S asked for; in
\* the script S is 1024, the largest edge of the size table; every file of the
\* batch is that one bitmap resized to an edge no larger than its own, never
\* another resized image resized again, and the bitmap is as create_icon
\* returned it throughout the batch.
C4_SingleMaster ==
    /\ base_icon # None =>
          /\ base_icon.w = size /\ base_icon.h = size
          /\ size = 1024
          /\ \A e \in IconTable : e[2] <= base_icon.w
          /\ base_icon = image
    /\ base_image # None =>
          /\ base_image = base_icon
          /\ Saved(<<"AppIcon-1024.png">>) /\ files[<<"AppIcon-1024.png">>].image = base_image
    /\ resized # None =>
          /\ resized.w <= base_image.w /\ resized.h <= base_image.h
          /\ resized = base_image \/ resized.resampled.source = base_image
    /\ \A i \in OkOps : i > 2 =>
          /\ Saved(ops[i].path)
          /\ Written(i) = base_icon \/ Written(i).resampled.source = base_icon
          /\ Written(i).w <= base_icon.w

C4_Witness ==
    /\ pc = "done"
    /\ files[<<"AppIcons", "Icon-29.png">>].image.resampled.source = base_icon
    /\ files[<<"AppIcons", "Icon-1024.png">>].image = base_icon

Abs(n) == IF n < 0 THEN 0 - n ELSE n

Gradient == returned

Monotone(g) ==
    \A y \in range(g.h), z \in range(g.h) :
        y < z => /\ g.rows[y][1] >= g.rows[z][1]
                 /\ g.rows[y][2] >= g.rows[z][2]
                 /\ g.rows[y][3] <= g.rows[z][3]

InRange(g) == \A y \in range(g.h) : \A c \in 1..3 : g.rows[y][c] \in 0..255

Painted(g) == DOMAIN g.rows = range(g.h) /\ \A y \in range(g.h) : g.rows[y] # BLACK

NearEnd(g) ==
    /\ Abs(g.rows[g.h - 1][1] - 75) <= 1
    /\ Abs(g.rows[g.h - 1][2] - 0) <= 1
    /\ Abs(g.rows[g.h - 1][3] - 130) <= 1

\* C5 as stated: for every height S >= 1 the last row is within 1 of the end
\* colour in each channel (with every row painted, row 0 the start colour, the
\* channels monotone and within 0..255).
C5_AsStated ==
    pc = "caller" =>
        /\ Painted(Gradient)
        /\ Gradient.rows[0] = <<255, 140, 0>>
        /\ NearEnd(Gradient)
        /\ Monotone(Gradient)
        /\ InRange(Gradient)

\* C5: for every height S >= 1 the gradient paints every row 0..S-1, row 0 is
\* the start colour (255,140,0), red and green never rise and blue never falls
\* from one row to a later one, and every channel is within 0..255; for every
\* height S >= 130 the last row is within 1 of the end colour (75,0,130) in
\* each channel.
C5_Gradient ==
    pc = "caller" =>
        /\ Painted(Gradient)
        /\ Gradient.rows[0] = <<255, 140, 0>>
        /\ Gradient.h >= 130 => NearEnd(Gradient)
        /\ Monotone(Gradient)
        /\ InRange(Gradient)

C5_Witness ==
    /\ pc = "caller" /\ Gradient.h = 130 /\ Gradient.w = 130
    /\ Gradient.rows[129] = <<76, 1, 129>>
    /\ Gradient.rows[64] # Gradient.rows[65]

\* start * (height - y) + end * y: height times the exact blend at row y
Blend(from, to, y, height) == from * (height - y) + to * y

From == <<255, 140, 0>>
To == <<75, 0, 130>>

\* C6 as stated: each channel of each row is the exact blend rounded to the
\* nearest integer.
C6_AsStated ==
    pc = "caller" =>
        \A y \in range(Gradient.h) : \A c \in 1..3 :
            2 * Abs(Gradient.rows[y][c] * Gradient.h - Blend(From[c], To[c], y, Gradient.h))
                <= Gradient.h

\* C6: each channel of each row is the linear blend start*(1 - y/H) + end*(y/H)
\* computed in floating point and truncated to an integer, never rounded up: it
\* is at most the exact blend and at most 1 below it, and for the height 1024
\* of the script it is the exact blend rounded down.
C6_Truncated ==
    pc = "caller" =>
        \A y \in range(Gradient.h) : \A c \in 1..3 :
            LET v == Gradient.rows[y][c]
                exact == Blend(From[c], To[c], y, Gradient.h)
            IN  /\ v * Gradient.h <= exact
                /\ exact <= (v + 1) * Gradient.h
                /\ Gradient.h = 1024 => exact < (v + 1) * Gradient.h

C6_Witness ==
    /\ pc = "caller"
    /\ Gradient.h = 7 /\ Gradient.rows[2] = <<203, 100, 37>>

C7_Rewritten ==
    /\ \A i \in 1..Len(ops) : ops[i].error # "FileExistsError"
    /\ (pc = "done" /\ run > 1) =>
          /\ Len(ops) = 14
          /\ Cardinality({ops[i].path : i \in {j \in OkOps : ops[j].op = "save"}}) = 13
          /\ {ops[i].path : i \in {j \in OkOps : ops[j].op = "save"}} = DOMAIN files

\* C7: a run that follows a run, both without an I/O failure, leaves the files
\* and directories as the first left them: the directory that exists is no
\* error, each of the 13 files is written once more, and no step of the second
\* run changes a file or a directory: names, sizes and pixels are those of the
\* first run.
C7_SecondRunSame ==
    /\ []C7_Rewritten
    /\ [][(run > 1 /\ run' = run /\ previous = "done" /\ pc' # "failed") =>
            files' = files /\ dirs' = dirs]_vars

C7_Witness ==
    /\ pc = "done" /\ run = 2 /\ previous = "done"
    /\ <<"AppIcons">> \in dirs
    /\ Cardinality(DOMAIN files) = 13
    /\ Len(ops) = 14

\* how far the run has come
Position ==
    CASE pc = "main" -> 0
      [] pc = "create_icon" -> 1
      [] pc = "draw_main_note" -> 2
      [] pc = "draw_secondary_note" -> 3
      [] pc = "draw_border" -> 4
      [] pc = "save_icon" -> 5
      [] pc = "return_icon" -> 6
      [] pc = "main_generate" -> 7
      [] pc = "makedirs" -> 8
      [] pc = "for_sizes" -> 7 + 2 * item
      [] pc = "save_resized" -> 8 + 2 * item
      [] pc = "main_complete" -> 40
      [] pc = "done" -> 41
      [] pc = "failed" -> 42

Ended == pc \in {"done", "failed"}

Complete == <<"Icon generation complete!">>

C8_Ends ==
    /\ ~Ended => ENABLED Step
    /\ Ended => ~ENABLED Step
    /\ pc = "done" <=> (stdout # <<>> /\ Last(stdout) = Complete)
    /\ \A i \in 1..Len(stdout) : stdout[i] = Complete => pc = "done"
    /\ pc = "done" =>
          /\ OkOps = 1..14
          /\ ops[14].path = <<"AppIcons", "Icon-29.png">>
    /\ pc = "failed" => Last(ops).error # "none" /\ OkOps = 1..(Len(ops) - 1)
    /\ Cardinality({i \in OkOps : ops[i].op = "save"}) <= 13

\* C8: every run ends, either completed after the 12th resized file is written,
\* the only state in which the completion message has been printed, or failed
\* at the first I/O failure; until then the run always has a next step, it
\* never goes back to an earlier one, and it writes no more than 13 files.
C8_Terminates ==
    /\ (pc = "main") ~> Ended
    /\ []C8_Ends
    /\ [][run' = run => Position' > Position]_vars

C8_Witness == pc = "done" /\ run = 2 /\ previous = "failed" /\ Last(stdout) = Complete

\* create_icon as the claim has it: the canvas after the gradient and the first
\* n of the drawing steps
IconAfter(s, n) ==
    LET g == create_gradient_background(<<s, s>>)
        a == draw_music_note(g, s \div 2, s \div 2, s, <<255, 255, 255>>)
        b == draw_music_note(a, s \div 2 - s \div 5, s \div 2 + s \div 10, (3 * s) \div 4,
                             <<255, 255, 255, 200>>)
        c == draw_ellipse_outline(b, <<s \div 50, s \div 50, s - s \div 50, s - s \div 50>>,
                                  <<255, 255, 255, 180>>, s \div 50)
    IN  CASE n = 0 -> g [] n = 1 -> a [] n = 2 -> b [] n = 3 -> c

\* C9: create_icon works on one canvas, in this order: the gradient at the size
\* asked for, the white note of scale S at (S//2, S//2), the note of scale
\* 3S//4 at (S//2 - S//5, S//2 + S//10), the border of width S//50 inset by
\* S//50, then the save; the file holds the canvas with all of it drawn, and
\* the canvas returned is the one saved, with nothing drawn after.
C9_IconOrder ==
    /\ pc = "draw_main_note" => image = IconAfter(size, 0) /\ image.w = size /\ image.h = size
    /\ pc = "draw_secondary_note" => image = IconAfter(size, 1) /\ Len(image.shapes) = 3
    /\ pc = "draw_border" => image = IconAfter(size, 2) /\ Len(image.shapes) = 6
    /\ pc \in {"save_icon", "return_icon", "caller", "failed"} =>
          image = IconAfter(size, 3) /\ Len(image.shapes) = 7
    /\ pc \in {"create_icon", "draw_main_note", "draw_secondary_note", "draw_border", "save_icon"} =>
          ops = <<>> /\ files = NoFiles
    /\ pc \in {"return_icon", "caller"} =>
          /\ ops = <<Log("save", output_path, "none")>>
          /\ files[output_path] = png(IconAfter(size, 3))
    /\ pc = "caller" => returned = image /\ files[output_path] = png(returned)

C9_Witness ==
    /\ pc = "caller" /\ size = 50
    /\ returned.shapes[7].width = 1
    /\ returned.shapes[4].xy = <<11, 36, 19, 44>>

\* C10: draw_music_note draws three shapes and nothing else, all in the fill
\* given: the head, an ellipse of radius r = size//8 centred on cx, from
\* cy + size//6 down 2r; the stem, a rectangle size//25 wide with its right
\* edge at cx + r, from cy - size//3 down to the top of the head; the flag, a
\* triangle from the top right corner of the stem whose lowest corner,
\* (cx + r, cy - size//8), is on the right edge of the stem.
C10_NoteShapes ==
    pc = "caller" =>
        LET cx == args.center_x
            cy == args.center_y
            r == args.size \div 8
            head == image.shapes[1]
            stem == image.shapes[2]
            flag == image.shapes[3]
        IN  /\ Len(image.shapes) = 3
            /\ image.rows = Image_new(<<1, 1>>).rows
            /\ \A i \in 1..3 : image.shapes[i].fill = args.color
            /\ DOMAIN head = {"call", "xy", "fill"}
            /\ head.call = "ellipse"
            /\ head.xy[1] + head.xy[3] = 2 * cx
            /\ head.xy[3] - head.xy[1] = 2 * r
            /\ head.xy[2] = cy + args.size \div 6
            /\ head.xy[4] - head.xy[2] = 2 * r
            /\ stem.call = "rectangle"
            /\ stem.xy[3] - stem.xy[1] = args.size \div 25
            /\ stem.xy[3] = cx + r
            /\ stem.xy[4] = head.xy[2]
            /\ stem.xy[2] = cy - args.size \div 3
            /\ flag.call = "polygon"
            /\ Len(flag.xy) = 3
            /\ flag.xy[1] = <<stem.xy[3], stem.xy[2]>>
            /\ flag.xy[3] = <<cx + r, cy - args.size \div 8>>
            /\ flag.xy[3][2] >= flag.xy[1][2] /\ flag.xy[3][2] >= flag.xy[2][2]
            /\ flag.xy[3][1] = stem.xy[3]
            /\ stem.xy[2] <= flag.xy[3][2] /\ flag.xy[3][2] <= stem.xy[4]

C10_Witness ==
    /\ pc = "caller" /\ args.size = 60 /\ args.center_x = 2 /\ args.center_y = 0 - 1
    /\ image.shapes[1].xy = <<0 - 5, 9, 9, 23>>
    /\ image.shapes[2].xy = <<7, 0 - 21, 9, 9>>

===========================================================================
